---- MODULE Spec2Model ----
(***************************************************************************)
(* Model of Figure_1_3_S3_Locations_WUP300K.py: the per-location averaging *)
(* (loc_average), the bootstrap of means (bstrap), the grouping of the     *)
(* input rows into regions and population size classes, the parsing of the *)
(* input text, and the whole run of the driver with plot_linear and        *)
(* plot_log, its output files and its chcp child processes.                *)
(*                                                                         *)
(* Numbers are exact rationals [num, den] in lowest terms; the rounding of *)
(* IEEE doubles is not represented.  Rows are functions over the 0-based   *)
(* column numbers of the input file, lists are 1-based sequences, so the   *)
(* Python index m of a list is position m + 1 here.                        *)
(***************************************************************************)
EXTENDS Integers, Sequences, FiniteSets, TLC

VARIABLES pc,            \* position of the modelled run
          la_args,       \* arguments of the loc_average call
          la_ret,        \* what the loc_average call returned or raised
          bs_args,       \* arguments of the bstrap call
          bs_choice,     \* members drawn by numpy.random.choice, as indices
          bs_ret,        \* what the bstrap call returned or raised
          data_items,    \* rows of the input file
          regions,       \* rows per region keyword
          allregions,    \* size class "all"
          aboveregions,  \* size class "above 2 million"
          belowregions,  \* size class "below 2 million"
          file_data,     \* text read from the input file
          file_lines,    \* lines of the text
          title_line,    \* the header line
          input_file,    \* sys.argv[1]
          handles,       \* input file, summary file and spreadsheet writer
          children,      \* the chcp processes started with subprocess.Popen
          msg,           \* the codepage read from the first chcp
          summary_out,   \* blocks written to the summary file
          sheets,        \* sheets written to the spreadsheet writer
          images,        \* files written by fig.savefig
          raised,        \* exceptions and warnings raised so far
          frame          \* locals of the running plot_linear or plot_log

parseVars == <<file_data, file_lines, title_line>>

runVars == <<input_file, handles, children, msg, summary_out, sheets, images, frame>>

vars == <<pc, la_args, la_ret, bs_args, bs_choice, bs_ret,
          data_items, regions, allregions, aboveregions, belowregions,
          parseVars, runVars, raised>>

\* the state of the parts of the program a specification leaves out
NoFrame == [call |-> 0, opic |-> "", m |-> 0, region_means |-> <<>>,
            bs_pack1 |-> <<>>, bs_pack2 |-> <<>>,
            bs_dict1 |-> <<>>, bs_dict2 |-> <<>>]

NoHandles == [input |-> "unopened", summary |-> "unopened", bstrap |-> "unopened"]

NoChildren == [query |-> "unstarted", change |-> "unstarted", restore |-> "unstarted"]

ParseIdle == file_data = <<>> /\ file_lines = <<>> /\ title_line = <<>>

RunIdle ==
    /\ input_file = ""
    /\ handles = NoHandles
    /\ children = NoChildren
    /\ msg = ""
    /\ summary_out = <<>>
    /\ sheets = <<>>
    /\ images = <<>>
    /\ frame = NoFrame

(***************************************************************************)
(* Bounds of the model.                                                    *)
(***************************************************************************)
MaxLocRows == 3
MaxDataRows == 3
MaxDrawn == 4

(***************************************************************************)
(* Floating point values and their arithmetic, as exact rationals.         *)
(***************************************************************************)
RECURSIVE GCD(_, _)
GCD(a, b) == IF b = 0 THEN a ELSE GCD(b, a % b)

Rat(n, d) == LET g == GCD(n, d) IN [num |-> n \div g, den |-> d \div g]

RAdd(a, b) == Rat(a.num * b.den + b.num * a.den, a.den * b.den)

\* a / k; k = 0 is Python's ZeroDivisionError, kept as a marker that the
\* function using the quotient turns into the raised exception
DivZero == [num |-> 0, den |-> 0]

RDiv(a, k) == IF k = 0 THEN DivZero ELSE Rat(a.num, a.den * k)

RLeq(a, b) == a.num * b.den <= b.num * a.den

\* float(x) on the text of a cell
float(s) ==
    CASE s = "1" -> Rat(1, 1)
      [] s = "2" -> Rat(2, 1)
      [] s = "3" -> Rat(3, 1)
      [] s = "4" -> Rat(4, 1)
      [] s = "1500" -> Rat(1500, 1)
      [] s = "2000" -> Rat(2000, 1)
      [] s = "2500" -> Rat(2500, 1)

(***************************************************************************)
(* The rows of the input file: 27 columns (header comment, Inputs).        *)
(***************************************************************************)
NumCols == 27

\* A row with the given name, region, 2010 population and data cells: x is
\* the first and the last decade of every measure, z the second decade.
MkRow(name, region, pop, x, z) ==
    [c \in 0..(NumCols - 1) |->
        CASE c = 0 -> name
          [] c = 1 -> "Country"
          [] c = 2 -> region
          [] c = 3 -> "7"
          [] c = 8 -> pop
          [] c \in {9, 18, 22} -> x
          [] c \in {10, 19, 23} -> z
          [] c \in {12, 21, 26} -> x
          [] c \in {11, 20, 24} -> "2"
          [] c = 25 -> "4"
          [] OTHER -> "1"]

RECURSIVE SeqsUpTo(_, _)
SeqsUpTo(S, n) ==
    IF n = 0 THEN {<<>>}
    ELSE LET shorter == SeqsUpTo(S, n - 1)
         IN shorter \cup {Append(q, e) : q \in {r \in shorter : Len(r) = n - 1}, e \in S}

(***************************************************************************)
(* loc_average                                                             *)
(***************************************************************************)
\* an exception or warning raised at a line, and whether the code handles it
\* there (an except clause, or a warnings filter set to "ignore")
Ev(kind, line, caught) == [kind |-> kind, line |-> line, caught |-> caught]

Raise(kind, text) == [status |-> kind, msg |-> text, series |-> <<>>]

Return(ss) == [status |-> "ok", msg |-> "", series |-> ss]

\* list(zip(*rows))[c]: column c of the rows
Column(rows, c) == [i \in 1..Len(rows) |-> rows[i][c]]

\* the number of columns list(zip(*rows))[start:end] yields
SliceLen(start, end) ==
    LET hi == IF end < NumCols THEN end ELSE NumCols
        lo == IF start < NumCols THEN start ELSE NumCols
    IN IF hi > lo THEN hi - lo ELSE 0

InList(q, e) == \E i \in 1..Len(q) : q[i] = e

\* loc_name_unique: the names in order of first occurrence
RECURSIVE UniqueFrom(_, _, _)
UniqueFrom(loc_name, i, acc) ==
    IF i > Len(loc_name) THEN acc
    ELSE UniqueFrom(loc_name, i + 1,
                    IF InList(acc, loc_name[i]) THEN acc ELSE Append(acc, loc_name[i]))

loc_name_unique(loc_name) == UniqueFrom(loc_name, 1, <<>>)

\* loc_index: the positions of the rows named nm
RECURSIVE IndexFrom(_, _, _, _)
IndexFrom(loc_name, nm, i, acc) ==
    IF i > Len(loc_name) THEN acc
    ELSE IndexFrom(loc_name, nm, i + 1,
                   IF loc_name[i] = nm THEN Append(acc, i) ELSE acc)

loc_index(loc_name, nm) == IndexFrom(loc_name, nm, 1, <<>>)

IsData(cell) == cell # "" /\ cell # " "

\* SumSub with a missing value left in the divisor (sub_loc not increased)
RECURSIVE SumSubKeepsMissing(_, _, _, _)
SumSubKeepsMissing(data, idx, k, acc) ==
    IF k > Len(idx) THEN acc
    ELSE SumSubKeepsMissing(data, idx, k + 1,
                IF IsData(data[idx[k]])
                THEN [sum |-> RAdd(acc.sum, float(data[idx[k]])), sub |-> acc.sub]
                ELSE acc)

\* the loop over k: sum_loc and sub_loc of one decade for one location
RECURSIVE SumSub(_, _, _, _)
SumSub(data, idx, k, acc) ==
    IF k > Len(idx) THEN acc
    ELSE SumSub(data, idx, k + 1,
                IF IsData(data[idx[k]])
                THEN [sum |-> RAdd(acc.sum, float(data[idx[k]])), sub |-> acc.sub]
                ELSE [sum |-> acc.sum, sub |-> acc.sub + 1])

\* LocFrom without the test that a location has a value in the decade
RECURSIVE LocFromUnguarded(_, _, _, _, _)
LocFromUnguarded(loc_name, uniq, data, j, acc) ==
    IF j > Len(uniq) THEN acc
    ELSE LET idx == loc_index(loc_name, uniq[j])
             ss == SumSub(data, idx, 1, [sum |-> Rat(0, 1), sub |-> 0])
         IN LocFromUnguarded(loc_name, uniq, data, j + 1,
                             Append(acc, RDiv(ss.sum, Len(idx) - ss.sub)))

\* LocFrom dividing by the number of rows of the region
RECURSIVE LocFromOverAllRows(_, _, _, _, _)
LocFromOverAllRows(loc_name, uniq, data, j, acc) ==
    IF j > Len(uniq) THEN acc
    ELSE LET idx == loc_index(loc_name, uniq[j])
             ss == SumSub(data, idx, 1, [sum |-> Rat(0, 1), sub |-> 0])
         IN LocFromOverAllRows(loc_name, uniq, data, j + 1,
                               IF Len(idx) - ss.sub > 0
                               THEN Append(acc, RDiv(ss.sum, Len(loc_name)))
                               ELSE acc)

\* the loop over j for one decade: the list loc70 (loc80, ...)
RECURSIVE LocFrom(_, _, _, _, _)
LocFrom(loc_name, uniq, data, j, acc) ==
    IF j > Len(uniq) THEN acc
    ELSE LET idx == loc_index(loc_name, uniq[j])
             ss == SumSub(data, idx, 1, [sum |-> Rat(0, 1), sub |-> 0])
         IN LocFrom(loc_name, uniq, data, j + 1,
                    IF Len(idx) - ss.sub > 0
                    THEN Append(acc, RDiv(ss.sum, Len(idx) - ss.sub))
                    ELSE acc)

LocDecade(rows, c) ==
    LET loc_name == Column(rows, 0)
    IN LocFrom(loc_name, loc_name_unique(loc_name), Column(rows, c), 1, <<>>)

loc_average(regs, m, data_index_start, data_index_end) ==
    LET n == data_index_end - data_index_start
    IN IF m + 1 > Len(regs) \/ Len(regs[m + 1]) = 0
       THEN Raise("IndexError", "list index out of range")
       ELSE IF n # 4 /\ n # 5
       THEN Raise("Exception", "Number of decades should be 4 or 5.")
       ELSE IF SliceLen(data_index_start, data_index_end) # n
       THEN Raise("ValueError", "not enough values to unpack")
       ELSE LET locs == [d \in 1..n |->
                            LocDecade(regs[m + 1], data_index_start + d - 1)]
            IN IF \E d \in 1..n : InList(locs[d], DivZero)
               THEN Raise("ZeroDivisionError", "division by zero")
               ELSE Return(locs)

(***************************************************************************)
(* bstrap                                                                  *)
(***************************************************************************)
RECURSIVE SeqSum(_, _)
SeqSum(q, i) == IF i > Len(q) THEN Rat(0, 1) ELSE RAdd(q[i], SeqSum(q, i + 1))

\* numpy.mean of one row of the drawn matrix
numpy_mean(q) == RDiv(SeqSum(q, 1), Len(q))

\* [float(x)/numr8tr for x in data]
Scale(data, numr8tr) == [i \in 1..Len(data) |-> RDiv(data[i], numr8tr)]

\* the mean taken along axis 0: one estimate per column of the drawn matrix
ResampleAxis0(npy, bs_iter, drawn) ==
    [i \in 1..Len(npy) |-> numpy_mean([r \in 1..bs_iter |-> npy[drawn[r][i]]])]

\* numpy.mean(numpy.random.choice(npy, size=(bs_iter, N), replace=True), axis=1),
\* drawn[r][i] being the index of the member drawn for row r, column i
Resample(npy, bs_iter, drawn) ==
    [r \in 1..bs_iter |-> numpy_mean([i \in 1..Len(npy) |-> npy[drawn[r][i]]])]

\* one decade resampled also when its series is empty
BsDecadeUnguarded(data, numr8tr, bs_iter, drawn) ==
    Resample(Scale(data, numr8tr), bs_iter, drawn)

\* one decade of bstrap: bs70 (bs80, ...)
BsDecade(data, numr8tr, bs_iter, drawn) ==
    IF Len(data) > 0
    THEN Resample(Scale(data, numr8tr), bs_iter, drawn)
    ELSE <<>>

\* bstrap returning the four arrays of the rates whatever the option
bstrapFourArrays(bs_iter, data, choice) ==
    IF Len(data) # 4 /\ Len(data) # 5
    THEN Raise("Exception", "Number of Decades should be 4 or 5")
    ELSE LET numr8tr == IF Len(data) = 4 THEN 1 ELSE 1000
         IN Return([d \in 1..4 |-> BsDecade(data[d], numr8tr, bs_iter, choice[d])])

\* bstrap with the 2010 series left unscaled
bstrapLastUnscaled(bs_iter, data, choice) ==
    IF Len(data) # 4 /\ Len(data) # 5
    THEN Raise("Exception", "Number of Decades should be 4 or 5")
    ELSE LET numr8tr == IF Len(data) = 4 THEN 1 ELSE 1000
         IN Return([d \in 1..Len(data) |->
                       IF d <= 4
                       THEN BsDecade(data[d], numr8tr, bs_iter, choice[d])
                       ELSE BsDecade(data[d], 1, bs_iter, choice[d])])

bstrap(bs_iter, data, choice) ==
    IF Len(data) # 4 /\ Len(data) # 5
    THEN Raise("Exception", "Number of Decades should be 4 or 5")
    ELSE LET opt == IF Len(data) = 4 THEN "rate" ELSE "PD"
             numr8tr == IF opt = "rate" THEN 1 ELSE 1000
         IN Return([d \in 1..Len(data) |->
                       IF d <= 4
                       THEN BsDecade(data[d], numr8tr, bs_iter, choice[d])
                       ELSE BsDecade(data[d], 1000, bs_iter, choice[d])])

\* what numpy.random.choice can draw for one series: nothing when the series
\* is empty (it is not called), else any bs_iter x N matrix of members
Draws(bs_iter, n) ==
    IF n = 0 THEN {<<>>} ELSE [1..bs_iter -> [1..n -> 1..n]]

RECURSIVE ChoicesFrom(_, _, _)
ChoicesFrom(bs_iter, data, d) ==
    IF d = 0 THEN {<<>>}
    ELSE {Append(q, m) : q \in ChoicesFrom(bs_iter, data, d - 1),
                         m \in Draws(bs_iter, Len(data[d]))}

\* no member is drawn when the number of series is refused
Choices(bs_iter, data) ==
    IF Len(data) # 4 /\ Len(data) # 5 THEN {<<>>}
    ELSE ChoicesFrom(bs_iter, data, Len(data))

(***************************************************************************)
(* Regions and size classes                                                *)
(***************************************************************************)
region_unique ==
    <<"N Am", "CS Am", "Europe", "Africa", "SW Asia",
      "SC Asia", "India", "China", "E Asia", "SE Asia">>

\* the rows whose region text contains the keyword ("SE Asia" contains "E Asia")
RegionRowsContaining(items, region) ==
    SelectSeq(items, LAMBDA data_line :
        data_line[2] = region \/ (region = "E Asia" /\ data_line[2] = "SE Asia"))

\* [data_line for data_line in data_items if data_line[2] == region]
RegionRows(items, region) ==
    SelectSeq(items, LAMBDA data_line : data_line[2] = region)

\* the class above 2 million taking the rows at 2000 as well
AboveClassInclusive(region_line) ==
    SelectSeq(region_line, LAMBDA x : RLeq(Rat(2000, 1), float(x[8])))

\* [x for x in region_line if float(x[8]) > 2000.0]
AboveClass(region_line) ==
    SelectSeq(region_line, LAMBDA x : ~RLeq(float(x[8]), Rat(2000, 1)))

\* [x for x in region_line if float(x[8]) <= 2000.0]
BelowClass(region_line) ==
    SelectSeq(region_line, LAMBDA x : RLeq(float(x[8]), Rat(2000, 1)))

(***************************************************************************)
(* The calls of loc_average: every region of 1 to MaxLocRows rows with a   *)
(* range of 4 and a range of 5 columns the program uses (9..13, 22..27); a *)
(* region of one row and a region without rows with these, with 18..22 and *)
(* with ranges of other widths or past the last column.                    *)
(***************************************************************************)
NoCall == [status |-> "none", msg |-> "", series |-> <<>>]

LocNames == {"Lagos", "Cairo"}

LocRows ==
    {MkRow(nm, "Africa", "2500", x, z) :
        nm \in LocNames, x \in {"", "1", "3"}, z \in {" ", "2"}}

LocRanges == {<<9, 13>>, <<22, 27>>}

OtherRanges == {<<18, 22>>, <<9, 12>>, <<22, 28>>, <<24, 28>>}

LocInputs ==
    {[regions |-> <<rows, <<>>>>, m |-> 0, start |-> r[1], end |-> r[2]] :
        rows \in SeqsUpTo(LocRows, MaxLocRows) \ {<<>>}, r \in LocRanges}
    \cup
    {[regions |-> <<<<row>>, <<>>>>, m |-> m, start |-> r[1], end |-> r[2]] :
        row \in LocRows, m \in {0, 1}, r \in OtherRanges \cup LocRanges}

InitLoc ==
    /\ pc = "loc_call"
    /\ la_args \in LocInputs
    /\ la_ret = NoCall
    /\ bs_args = <<>>
    /\ bs_choice = <<>>
    /\ bs_ret = NoCall
    /\ data_items = <<>>
    /\ regions = <<>>
    /\ allregions = <<>>
    /\ aboveregions = <<>>
    /\ belowregions = <<>>
    /\ ParseIdle
    /\ RunIdle
    /\ raised = <<>>

Call_loc_average ==
    /\ pc = "loc_call"
    /\ la_ret' = loc_average(la_args.regions, la_args.m, la_args.start, la_args.end)
    /\ pc' = "loc_done"
    /\ UNCHANGED <<la_args, bs_args, bs_choice, bs_ret,
                   data_items, regions, allregions, aboveregions, belowregions>>
    /\ UNCHANGED <<parseVars, runVars, raised>>

NextLoc == Call_loc_average

SpecLoc == InitLoc /\ [][NextLoc]_vars

(***************************************************************************)
(* What the claims about loc_average speak of, stated from the rows.       *)
(***************************************************************************)
LaRows == la_args.regions[la_args.m + 1]

LaReturned == pc = "loc_done" /\ la_ret.status = "ok"

\* the column of decade d of the call
LaCol(d) == la_args.start + d - 1

NamesIn(rows) == {rows[i][0] : i \in 1..Len(rows)}

\* the rows of a name that hold a value in column c
Valued(rows, nm, c) ==
    {i \in 1..Len(rows) : rows[i][0] = nm /\ rows[i][c] \notin {"", " "}}

NamesValued(rows, c) == {nm \in NamesIn(rows) : Valued(rows, nm, c) # {}}

FirstRow(rows, nm) ==
    CHOOSE i \in 1..Len(rows) :
        rows[i][0] = nm /\ \A h \in 1..(i - 1) : rows[h][0] # nm

\* the place of a name among the names valued in column c, by first occurrence
Place(rows, nm, c) ==
    Cardinality({o \in NamesValued(rows, c) : FirstRow(rows, o) <= FirstRow(rows, nm)})

RECURSIVE Total(_, _, _)
Total(rows, c, S) ==
    IF S = {} THEN 0
    ELSE LET i == CHOOSE h \in S : TRUE
         IN float(rows[i][c]).num + Total(rows, c, S \ {i})

\* C1: after loc_average returns, every name of the region with at least one
\* non-missing value in a decade column has its entry in that decade's series
\* (at the name's place among such names), and the entry times the number of
\* the name's non-missing values is the sum of those values.
C1_LocationMean ==
    LaReturned =>
        \A d \in 1..Len(la_ret.series) : \A nm \in NamesValued(LaRows, LaCol(d)) :
            LET S == Valued(LaRows, nm, LaCol(d))
                p == Place(LaRows, nm, LaCol(d))
            IN /\ p <= Len(la_ret.series[d])
               /\ la_ret.series[d][p].den > 0
               /\ la_ret.series[d][p].num * Cardinality(S)
                      = Total(LaRows, LaCol(d), S) * la_ret.series[d][p].den

\* a name with two rows of different values in a decade, one more row missing
C1_Witness ==
    /\ LaReturned
    /\ \E d \in 1..Len(la_ret.series) : \E nm \in NamesIn(LaRows) :
          /\ Cardinality(Valued(LaRows, nm, LaCol(d))) = 2
          /\ Cardinality({i \in 1..Len(LaRows) : LaRows[i][0] = nm}) = 3
          /\ la_ret.series[d] = <<Rat(2, 1)>>

\* C2: loc_average never divides by zero; each decade's series is as long
\* as there are names with a value in that decade, and its p-th entry belongs
\* to the p-th such name in order of first occurrence, so a name whose rows
\* are all missing in a decade has no entry there.
C2_NoEntryWithoutValue ==
    /\ la_ret.status # "ZeroDivisionError"
    /\ LaReturned =>
          \A d \in 1..Len(la_ret.series) :
             /\ Len(la_ret.series[d]) = Cardinality(NamesValued(LaRows, LaCol(d)))
             /\ \A p \in 1..Len(la_ret.series[d]) :
                   \E nm \in NamesValued(LaRows, LaCol(d)) :
                      /\ Place(LaRows, nm, LaCol(d)) = p
                      /\ la_ret.series[d][p] # DivZero
                      /\ la_ret.series[d][p].num
                             * Cardinality(Valued(LaRows, nm, LaCol(d)))
                           = Total(LaRows, LaCol(d), Valued(LaRows, nm, LaCol(d)))
                                * la_ret.series[d][p].den

\* the first name has no value in one decade and a value in another, and a
\* later name fills the first place of the decade the first name misses
C2_Witness ==
    /\ LaReturned
    /\ \E d, e \in 1..Len(la_ret.series) :
          LET first == LaRows[1][0]
          IN /\ Valued(LaRows, first, LaCol(d)) = {}
             /\ Valued(LaRows, first, LaCol(e)) # {}
             /\ Len(la_ret.series[d]) = 1
             /\ Len(la_ret.series[e]) = 2
             /\ la_ret.series[d][1] # la_ret.series[e][1]

\* C3: a name that occurs in exactly one row has, in every decade where
\* that row holds a value, an entry equal to the row's value.
C3_SingleStudyUnchanged ==
    LaReturned =>
        \A i \in 1..Len(LaRows) :
            (\A h \in 1..Len(LaRows) : h # i => LaRows[h][0] # LaRows[i][0]) =>
                \A d \in 1..Len(la_ret.series) :
                    LaRows[i][LaCol(d)] \notin {"", " "} =>
                        LET p == Place(LaRows, LaRows[i][0], LaCol(d))
                        IN /\ p <= Len(la_ret.series[d])
                           /\ la_ret.series[d][p] = float(LaRows[i][LaCol(d)])

\* a single-study name next to a name with two studies
C3_Witness ==
    /\ LaReturned
    /\ Len(LaRows) = 3
    /\ LaRows[1][0] = LaRows[3][0]
    /\ LaRows[2][0] # LaRows[1][0]
    /\ LaRows[2][LaCol(1)] = "3"
    /\ LaRows[1][LaCol(1)] = "1"
    /\ LaRows[3][LaCol(1)] = "1"
    /\ la_ret.series[1] = <<Rat(1, 1), Rat(3, 1)>>

\* C8: loc_average raises 'Number of decades should be 4 or 5.' whenever
\* data_index_end - data_index_start is neither 4 nor 5, and returns 4
\* series when the difference is 4 and 5 series when it is 5.
C8_DecadeCount ==
    pc = "loc_done" =>
        LET n == la_args.end - la_args.start
        IN IF n \in {4, 5}
           THEN la_ret.status = "ok" /\ Len(la_ret.series) = n
           ELSE /\ la_ret.status = "Exception"
                /\ la_ret.msg = "Number of decades should be 4 or 5."

(***************************************************************************)
(* The calls of bstrap: 3 to 6 series; the first or the last of them is    *)
(* any of the series below, the others are empty or hold one value; the    *)
(* matrix drawn for a series has at most MaxDrawn cells.                   *)
(***************************************************************************)
BsValues == <<Rat(1000, 1), Rat(3000, 1), Rat(1000, 1), Rat(3000, 1), Rat(1000, 1)>>

BsSeries(n) ==
    {[i \in 1..n |-> BsValues[i]], [i \in 1..n |-> Rat(2000, 1)]}

BsTuples(k, first) ==
    {[d \in 1..k |-> IF d = 1 THEN first ELSE rest[d]] :
        rest \in [1..k -> {<<>>, <<Rat(2000, 1)>>}]}

Reverse(q) == [i \in 1..Len(q) |-> q[Len(q) + 1 - i]]

BsInputs ==
    UNION {UNION {UNION {{[bs_iter |-> b, data |-> t],
                          [bs_iter |-> b, data |-> Reverse(t)]} :
                            t \in BsTuples(k, first)} :
                     first \in UNION {BsSeries(n) :
                                         n \in {h \in 0..MaxDrawn : b * h <= MaxDrawn}}} :
              b \in 1..MaxDrawn, k \in 3..6}

InitBs ==
    /\ pc = "bs_call"
    /\ bs_args \in BsInputs
    /\ bs_choice = <<>>
    /\ bs_ret = NoCall
    /\ la_args = <<>>
    /\ la_ret = NoCall
    /\ data_items = <<>>
    /\ regions = <<>>
    /\ allregions = <<>>
    /\ aboveregions = <<>>
    /\ belowregions = <<>>
    /\ ParseIdle
    /\ RunIdle
    /\ raised = <<>>

Call_bstrap ==
    /\ pc = "bs_call"
    /\ \E choice \in Choices(bs_args.bs_iter, bs_args.data) :
          /\ bs_choice' = choice
          /\ bs_ret' = bstrap(bs_args.bs_iter, bs_args.data, choice)
    /\ pc' = "bs_done"
    /\ UNCHANGED <<bs_args, la_args, la_ret,
                   data_items, regions, allregions, aboveregions, belowregions>>
    /\ UNCHANGED <<parseVars, runVars, raised>>

NextBs == Call_bstrap

SpecBs == InitBs /\ [][NextBs]_vars

(***************************************************************************)
(* What the claims about bstrap speak of, stated from the arguments.       *)
(***************************************************************************)
BsReturned == pc = "bs_done" /\ bs_ret.status = "ok"

BsData(d) == bs_args.data[d]

\* the divisor the claims give for a call: 1 for 4 series, 1000 for 5
BsDivisor == IF Len(bs_args.data) = 5 THEN 1000 ELSE 1

\* the sum of the members drawn for estimate r of decade d, unscaled
RECURSIVE DrawnTotal(_, _, _)
DrawnTotal(d, r, i) ==
    IF i = 0 THEN 0
    ELSE BsData(d)[bs_choice[d][r][i]].num + DrawnTotal(d, r, i - 1)

\* e lies between the least and the greatest member of series d, scaled
Between(e, d) ==
    /\ \E i \in 1..Len(BsData(d)) : BsData(d)[i].num * e.den <= e.num * BsDivisor
    /\ \E i \in 1..Len(BsData(d)) : e.num * BsDivisor <= BsData(d)[i].num * e.den

C5_EmptyDecade ==
    (pc = "bs_done" /\ Len(bs_args.data) \in {4, 5}) =>
        /\ bs_ret.status = "ok"
        /\ \A d \in 1..Len(bs_args.data) :
              /\ Len(BsData(d)) = 0 => bs_ret.series[d] = <<>>
              /\ Len(BsData(d)) > 0 =>
                    /\ Len(bs_ret.series[d]) = bs_args.bs_iter
                    /\ \A r \in 1..bs_args.bs_iter : bs_ret.series[d][r] # DivZero

\* an empty decade between two decades that are resampled
C5_Witness ==
    /\ BsReturned
    /\ bs_args.bs_iter = 2
    /\ Len(bs_args.data) = 5
    /\ Len(BsData(1)) = 2 /\ Len(BsData(2)) = 0 /\ Len(BsData(3)) = 1
    /\ Len(bs_ret.series[1]) = 2 /\ bs_ret.series[2] = <<>> /\ Len(bs_ret.series[3]) = 2

\* C6: bstrap returns as many arrays as it is given series, 4 or 5, array d
\* made from series d; with any other number of series it raises 'Number of
\* Decades should be 4 or 5' and nothing has been drawn.
C6_ArraysInOrder ==
    pc = "bs_done" =>
        IF Len(bs_args.data) \in {4, 5}
        THEN /\ bs_ret.status = "ok"
             /\ Len(bs_ret.series) = Len(bs_args.data)
             /\ \A d \in 1..Len(bs_args.data) :
                   /\ (Len(bs_ret.series[d]) = 0) <=> (Len(BsData(d)) = 0)
                   /\ \A r \in 1..Len(bs_ret.series[d]) :
                         Between(bs_ret.series[d][r], d)
        ELSE /\ bs_ret.status = "Exception"
             /\ bs_ret.msg = "Number of Decades should be 4 or 5"
             /\ bs_ret.series = <<>>
             /\ bs_choice = <<>>

\* five series, the last one different from the others
C6_Witness ==
    /\ BsReturned
    /\ Len(bs_args.data) = 5
    /\ BsData(1) = <<Rat(2000, 1)>>
    /\ BsData(5) = <<Rat(1000, 1), Rat(3000, 1)>>
    /\ bs_ret.series[1] = <<Rat(2, 1)>>
    /\ bs_ret.series[5] = <<Rat(3, 1)>>

\* C7: with 4 series an estimate times N is the sum of the members drawn
\* for it; with 5 series an estimate times N times 1000 is that sum, in
\* every one of the five decades.
C7_Scaling ==
    BsReturned =>
        \A d \in 1..Len(bs_args.data) : \A r \in 1..Len(bs_ret.series[d]) :
            LET e == bs_ret.series[d][r]
                N == Len(BsData(d))
            IN IF Len(bs_args.data) = 4
               THEN e.num * N = DrawnTotal(d, r, N) * e.den
               ELSE e.num * N * 1000 = DrawnTotal(d, r, N) * e.den

\* the 2010 series of a call with 5 series
C7_Witness ==
    /\ BsReturned
    /\ Len(bs_args.data) = 5
    /\ BsData(5) = <<Rat(1000, 1), Rat(3000, 1)>>
    /\ bs_choice[5] = <<<<2, 1>>>>
    /\ bs_ret.series[5] = <<Rat(2, 1)>>

(***************************************************************************)
(* The grouping of the data rows: up to MaxDataRows rows of two names,     *)
(* three regions (one of them no keyword) and three populations.           *)
(***************************************************************************)
DataRows ==
    {MkRow(nm, rg, pop, "1", "2") :
        nm \in LocNames, rg \in {"E Asia", "SE Asia", "Oceania"},
        pop \in {"1500", "2000", "2500"}}

InitGroup ==
    /\ pc = "rows_read"
    /\ data_items \in SeqsUpTo(DataRows, MaxDataRows)
    /\ regions = <<>>
    /\ allregions = <<>>
    /\ aboveregions = <<>>
    /\ belowregions = <<>>
    /\ la_args = <<>>
    /\ la_ret = NoCall
    /\ bs_args = <<>>
    /\ bs_choice = <<>>
    /\ bs_ret = NoCall
    /\ ParseIdle
    /\ RunIdle
    /\ raised = <<>>

\* regions = []; for region in region_unique: regions.append(...)
SetUpRegions ==
    /\ pc = "rows_read"
    /\ regions' = [i \in 1..Len(region_unique) |-> RegionRows(data_items, region_unique[i])]
    /\ pc' = "grouped"
    /\ UNCHANGED <<data_items, allregions, aboveregions, belowregions,
                   la_args, la_ret, bs_args, bs_choice, bs_ret>>
    /\ UNCHANGED <<parseVars, runVars, raised>>

\* allregions, aboveregions, belowregions
SetUpSizeClasses ==
    /\ pc = "grouped"
    /\ allregions' = regions
    /\ aboveregions' = [i \in 1..Len(regions) |-> AboveClass(regions[i])]
    /\ belowregions' = [i \in 1..Len(regions) |-> BelowClass(regions[i])]
    /\ pc' = "classed"
    /\ UNCHANGED <<data_items, regions, la_args, la_ret, bs_args, bs_choice, bs_ret>>
    /\ UNCHANGED <<parseVars, runVars, raised>>

NextGroup == SetUpRegions \/ SetUpSizeClasses

SpecGroup == InitGroup /\ [][NextGroup]_vars

\* the positions of q up to p that satisfy the test
UpTo(q, p, Test(_)) == {h \in 1..p : Test(q[h])}

Over2000(x) == x[8] = "2500"

AtMost2000(x) == x[8] \in {"1500", "2000"}

\* C9: in every region the rows above 2 million and the rows below are
\* together the rows of the class 'all': each row of allregions is, in its
\* place among the rows of its kind, the row of aboveregions when its 2010
\* population exceeds 2000 and the row of belowregions when it does not;
\* neither class holds anything else, and a row at 2000 is below.
C9_SizeClassesPartition ==
    pc = "classed" =>
        /\ Len(aboveregions) = Len(allregions)
        /\ Len(belowregions) = Len(allregions)
        /\ \A i \in 1..Len(allregions) :
              LET all == allregions[i]
              IN /\ Len(aboveregions[i]) + Len(belowregions[i]) = Len(all)
                 /\ \A p \in 1..Len(all) :
                       LET na == Cardinality(UpTo(all, p, Over2000))
                           nb == Cardinality(UpTo(all, p, AtMost2000))
                       IN IF Over2000(all[p])
                          THEN na <= Len(aboveregions[i]) /\ aboveregions[i][na] = all[p]
                          ELSE nb <= Len(belowregions[i]) /\ belowregions[i][nb] = all[p]

\* a region with a row at 2000 between a row above and a row below
C9_Witness ==
    /\ pc = "classed"
    /\ \E i \in 1..Len(allregions) :
          /\ Len(allregions[i]) = 3
          /\ allregions[i][1][8] = "2500"
          /\ allregions[i][2][8] = "2000"
          /\ allregions[i][3][8] = "1500"
          /\ Len(aboveregions[i]) = 1
          /\ Len(belowregions[i]) = 2
          /\ belowregions[i][1] = allregions[i][2]

Keywords ==
    <<"N Am", "CS Am", "Europe", "Africa", "SW Asia",
      "SC Asia", "India", "China", "E Asia", "SE Asia">>

\* C10: regions holds one list per keyword, in the display order; list i
\* holds the data rows whose third column is keyword i, each in its place
\* among such rows, and nothing else; so a row is in at most one list and a
\* row of another region is in none, nor in any size class.
C10_RegionGrouping ==
    pc \in {"grouped", "classed"} =>
        /\ Len(regions) = 10
        /\ \A i \in 1..10 :
              /\ Len(regions[i]) =
                    Cardinality({p \in 1..Len(data_items) : data_items[p][2] = Keywords[i]})
              /\ \A p \in 1..Len(data_items) :
                    data_items[p][2] = Keywords[i] =>
                       LET n == Cardinality({h \in 1..p : data_items[h][2] = Keywords[i]})
                       IN n <= Len(regions[i]) /\ regions[i][n] = data_items[p]
        /\ pc = "classed" =>
              \A i \in 1..10 :
                 /\ \A p \in 1..Len(allregions[i]) : allregions[i][p][2] = Keywords[i]
                 /\ \A p \in 1..Len(aboveregions[i]) : aboveregions[i][p][2] = Keywords[i]
                 /\ \A p \in 1..Len(belowregions[i]) : belowregions[i][p][2] = Keywords[i]

\* rows of two neighbouring keywords and a row of no keyword
C10_Witness ==
    /\ pc = "classed"
    /\ Len(data_items) = 3
    /\ data_items[1][2] = "SE Asia"
    /\ data_items[2][2] = "Oceania"
    /\ data_items[3][2] = "E Asia"
    /\ regions[9] = <<data_items[3]>>
    /\ regions[10] = <<data_items[1]>>
    /\ \A i \in 1..8 : regions[i] = <<>>

\* ---------------------------------------------------------------------------
\* Reading the input (lines 860-875).  In this part a text is a sequence of
\* one-character strings, a line is such a sequence, and a data row is a
\* sequence of fields, each again a sequence of characters.
\* ---------------------------------------------------------------------------

\* longest input text explored
MaxFileLen == 6

\* characters of the input text: a letter, the comma, the blank, the newline
FileChars == {"a", ",", " ", "\n"}

FileTexts == SeqsUpTo(FileChars, MaxFileLen)

\* str.split(sep): the pieces between the separators, empty pieces included
RECURSIVE SplitFrom(_, _, _, _)
SplitFrom(s, sep, i, cur) ==
    IF i > Len(s) THEN <<cur>>
    ELSE IF s[i] = sep THEN <<cur>> \o SplitFrom(s, sep, i + 1, <<>>)
    ELSE SplitFrom(s, sep, i + 1, Append(cur, s[i]))

split(s, sep) == SplitFrom(s, sep, 1, <<>>)

\* list.count(x)
count(l, x) == Cardinality({i \in 1..Len(l) : l[i] = x})

\* list.remove(x): the first occurrence goes
remove(l, x) ==
    LET i == CHOOSE i \in 1..Len(l) : l[i] = x /\ \A j \in 1..(i - 1) : l[j] # x
    IN SubSeq(l, 1, i - 1) \o SubSeq(l, i + 1, Len(l))

\* while l.count(x) > 0: l.remove(x)
RECURSIVE RemoveWhileCounted(_, _)
RemoveWhileCounted(l, x) ==
    IF count(l, x) > 0 THEN RemoveWhileCounted(remove(l, x), x) ELSE l

\* only the first of the two loops
DropEmptyLinesOnly(lines) == RemoveWhileCounted(lines, <<>>)

\* lines 866-869: first every '', then every ' '
DropBlankLines(lines) ==
    RemoveWhileCounted(RemoveWhileCounted(lines, <<>>), <<" ">>)

InitParse ==
    /\ pc = "read"
    /\ file_data \in FileTexts
    /\ file_lines = <<>>
    /\ title_line = <<>>
    /\ data_items = <<>>
    /\ raised = <<>>
    /\ la_args = NoCall /\ la_ret = NoCall
    /\ bs_args = NoCall /\ bs_choice = <<>> /\ bs_ret = NoCall
    /\ regions = <<>> /\ allregions = <<>>
    /\ aboveregions = <<>> /\ belowregions = <<>>
    /\ RunIdle

parseFrame == <<la_args, la_ret, bs_args, bs_choice, bs_ret,
                regions, allregions, aboveregions, belowregions, runVars>>

\* line 865
SplitIntoLines ==
    /\ pc = "read"
    /\ file_lines' = split(file_data, "\n")
    /\ pc' = "lines"
    /\ UNCHANGED <<file_data, title_line, data_items, raised, parseFrame>>

\* lines 866-869
RemoveBlankLines ==
    /\ pc = "lines"
    /\ file_lines' = DropBlankLines(file_lines)
    /\ pc' = "nonblank"
    /\ UNCHANGED <<file_data, title_line, data_items, raised, parseFrame>>

\* line 872; pop(0) of an empty list raises IndexError, which nothing catches
PopTitleLine ==
    /\ pc = "nonblank"
    /\ IF file_lines = <<>>
          THEN /\ raised' = Append(raised, Ev("IndexError", 872, FALSE))
               /\ pc' = "crashed"
               /\ UNCHANGED <<file_lines, title_line>>
          ELSE /\ title_line' = Head(file_lines)
               /\ file_lines' = Tail(file_lines)
               /\ pc' = "data"
               /\ UNCHANGED raised
    /\ UNCHANGED <<file_data, data_items, parseFrame>>

\* line 875
SplitByCommas ==
    /\ pc = "data"
    /\ data_items' = [j \in 1..Len(file_lines) |-> split(file_lines[j], ",")]
    /\ pc' = "parsed"
    /\ UNCHANGED <<file_data, file_lines, title_line, raised, parseFrame>>

NextParse == SplitIntoLines \/ RemoveBlankLines \/ PopTitleLine \/ SplitByCommas

SpecParse == InitParse /\ [][NextParse]_vars

\* The lines of a text, told from the places of its newlines: a line lies
\* between two neighbouring bounds, where the bounds are the newlines, the
\* place before the text and the place after it.
LineBounds(text) ==
    {0, Len(text) + 1} \cup {i \in 1..Len(text) : text[i] = "\n"}

LineAfter(text, b) ==
    LET c == CHOOSE c \in LineBounds(text) :
                 c > b /\ \A d \in LineBounds(text) : ~(b < d /\ d < c)
    IN SubSeq(text, b + 1, c - 1)

\* the lines that are neither '' nor ' ', named by the bound before them
KeptStarts(text) ==
    {b \in LineBounds(text) \ {Len(text) + 1} :
        LineAfter(text, b) \notin {<<>>, <<" ">>}}

\* the n-th such line, counted from 1
KeptLine(text, n) ==
    LineAfter(text, CHOOSE b \in KeptStarts(text) :
                       Cardinality({d \in KeptStarts(text) : d <= b}) = n)

\* the fields of a row written with commas between them
RECURSIVE JoinComma(_)
JoinComma(fields) ==
    IF Len(fields) = 1 THEN fields[1]
    ELSE fields[1] \o <<",">> \o JoinComma(Tail(fields))

\* C11: once the input is parsed, the header is the first line of the text
\* that is neither '' nor ' ', and the data rows are the other such lines,
\* one row per line and in the order of the text, each row being the line's
\* pieces between its commas; no '' or ' ' line gives a row, wherever it is.
C11_InputParsing ==
    pc = "parsed" =>
        LET K == KeptStarts(file_data)
        IN /\ K # {}
           /\ title_line = KeptLine(file_data, 1)
           /\ Len(data_items) = Cardinality(K) - 1
           /\ \A j \in 1..Len(data_items) :
                 /\ Len(data_items[j]) >= 1
                 /\ JoinComma(data_items[j]) = KeptLine(file_data, j + 1)
                 /\ \A f \in 1..Len(data_items[j]) :
                       \A c \in 1..Len(data_items[j][f]) : data_items[j][f][c] # ","

\* a header, then a ' ' line, an empty line and a data line of two fields
C11_Witness ==
    /\ pc = "parsed"
    /\ file_data = <<"a", "\n", " ", "\n", "\n", ",">>
    /\ title_line = <<"a">>
    /\ data_items = << << <<>>, <<>> >> >>

\* ---------------------------------------------------------------------------
\* The whole run (lines 71-76 and 848-927): the driver, plot_linear and
\* plot_log, one step per statement of the driver and per pass of a loop
\* over the regions.  Drawing and styling of the figures change no state the
\* outputs depend on and are left out; savefig, to_excel and write are kept.
\* ---------------------------------------------------------------------------

\* estimates drawn per series: the 1000 of bstrap(1000, ...), scaled down
RunBsIter == 2

numpy_nan == DivZero

\* numpy.median of an array of estimates; nan for the empty array
numpy_median(q) ==
    IF Len(q) = 0 THEN numpy_nan
    ELSE LET srt == SortSeq(q, LAMBDA a, b : RLeq(a, b) /\ a # b)
             n == Len(q)
         IN IF n % 2 = 1 THEN srt[(n + 1) \div 2]
            ELSE RDiv(RAdd(srt[n \div 2], srt[n \div 2 + 1]), 2)

\* os.path.split(p)[0] of the input files explored
path_split_head(p) ==
    CASE p = "Input.csv" -> ""
      [] p = "data/Input.csv" -> "data"

\* os.path.join(a, b)
path_join(a, b) == IF a = "" THEN b ELSE a \o "/" \o b

\* cur_region.replace(' ','_')
replace_blank(cur_region) ==
    CASE cur_region = "N Am" -> "N_Am"
      [] cur_region = "CS Am" -> "CS_Am"
      [] cur_region = "Europe" -> "Europe"
      [] cur_region = "Africa" -> "Africa"
      [] cur_region = "SW Asia" -> "SW_Asia"
      [] cur_region = "SC Asia" -> "SC_Asia"
      [] cur_region = "India" -> "India"
      [] cur_region = "China" -> "China"
      [] cur_region = "E Asia" -> "E_Asia"
      [] cur_region = "SE Asia" -> "SE_Asia"

\* the opic_string of the three pairs of calls (lines 906-921)
opic_strings ==
    <<"regional_all_location", "regional_above_location", "regional_below_location">>

\* the regions argument of the k-th pair of calls
CallRegions(k) ==
    CASE k = 1 -> allregions
      [] k = 2 -> aboveregions
      [] k = 3 -> belowregions

\* a file name that leaves the scale out
ImageNameWithoutScale(ifile_path, opic, measure, scale) ==
    path_join(path_split_head(ifile_path), opic \o "_" \o measure \o ".png")

\* os.path.join(os.path.split(ifile_path)[0], '{:s}_rates_linear.png'.format(opic_string))
ImageName(ifile_path, opic, measure, scale) ==
    path_join(path_split_head(ifile_path), opic \o "_" \o measure \o "_" \o scale \o ".png")

\* a sheet name that leaves the size class out
SheetNameWithoutClass(measure, opic) == measure

\* "UER_{:s}".format(opic_string), "PD_{:s}".format(opic_string)
SheetName(measure, opic) == measure \o "_" \o opic

\* the mean of a location-averaged series with no except clause around it
TryMeanUncaught(x, line) ==
    IF Len(x) = 0
    THEN [value |-> numpy_nan, events |-> <<Ev("ZeroDivisionError", line, FALSE)>>]
    ELSE [value |-> RDiv(SeqSum(x, 1), Len(x)), events |-> <<>>]

\* try: means.append(sum(x)/len(x)) except ZeroDivisionError: means.append(numpy.nan)
TryMean(x, line) ==
    IF Len(x) = 0
    THEN [value |-> numpy_nan, events |-> <<Ev("ZeroDivisionError", line, TRUE)>>]
    ELSE [value |-> RDiv(SeqSum(x, 1), Len(x)), events |-> <<>>]

RECURSIVE Concat(_)
Concat(qq) == IF qq = <<>> THEN <<>> ELSE Head(qq) \o Concat(Tail(qq))

\* the events up to the first one nothing handles: what follows it is not run
UpToUncaught(evs) ==
    IF \A i \in 1..Len(evs) : evs[i].caught THEN evs
    ELSE SubSeq(evs, 1, CHOOSE i \in 1..Len(evs) :
                            ~evs[i].caught /\ \A j \in 1..(i - 1) : evs[j].caught)

Terminates(evs) == \E i \in 1..Len(evs) : ~evs[i].caught

\* every pair described by the first decade's estimates
StatsOfFirstDecade(bs) ==
    [d \in 1..Len(bs) |-> [mean |-> numpy_mean(bs[1]), median |-> numpy_median(bs[1])]]

\* numpy.mean and numpy.median of each array of estimates (lines 359-360, 470-471)
StatsOf(bs) ==
    [d \in 1..Len(bs) |-> [mean |-> numpy_mean(bs[d]), median |-> numpy_median(bs[d])]]

\* the RuntimeWarnings of those calls on empty arrays, which the filter set
\* by warnings.simplefilter("ignore") drops: first the means, then the medians
StatsWarnings(bs, line) ==
    Concat([d \in 1..Len(bs) |->
               IF Len(bs[d]) = 0 THEN <<Ev("RuntimeWarning", line, TRUE)>> ELSE <<>>])
    \o Concat([d \in 1..Len(bs) |->
               IF Len(bs[d]) = 0 THEN <<Ev("RuntimeWarning", line + 1, TRUE)>> ELSE <<>>])

\* the text written by summary_output_file_handle.write, kept as its parts
SummaryBlock(cur_region, title, opic, bs) ==
    [region |-> cur_region, title |-> title, opic |-> opic, stats |-> StatsOf(bs)]

rate_items == <<"70-80", "80-90", "90-00", "00-10">>

pd_items == <<"1970", "1980", "1990", "2000", "2010">>

\* the loop over bs_item: a column per non-empty array, under a key not yet
\* in the dict
RECURSIVE DictWith(_, _, _, _, _, _)
DictWith(bs_dict, cur_region, opic, items, bs, d) ==
    IF d > Len(bs) THEN bs_dict
    ELSE LET bs_key == replace_blank(cur_region) \o "_" \o opic \o "_" \o items[d]
             known == \E i \in 1..Len(bs_dict) : bs_dict[i].key = bs_key
         IN DictWith(IF Len(bs[d]) = 0 \/ known THEN bs_dict
                     ELSE Append(bs_dict, [key |-> bs_key, data |-> bs[d]]),
                     cur_region, opic, items, bs, d + 1)

\* the input handle after lines 861-862, were it left open
AfterReadStillOpen(h) == h

\* input_file_handle.close() (line 862)
AfterRead(h) == [h EXCEPT !.input = "closed"]

\* The input files explored: every region has one location with a row above
\* and a row below 2 million, written from the last region to the first;
\* the cells of India vary, and the rows of one region and one class (or
\* both) may be missing.  A file without a header line is among them.
RunPair(region, x, z, missing) ==
    (IF missing \in {"above", "both"} THEN <<>>
     ELSE <<MkRow("Lagos", region, "2500", x, z)>>)
    \o (IF missing \in {"below", "both"} THEN <<>>
        ELSE <<MkRow("Lagos", region, "1500", x, z)>>)

RunRows(short, missing, x, z) ==
    Concat([i \in 1..10 |->
        LET region == region_unique[11 - i]
        IN RunPair(region,
                   IF region = "India" THEN x ELSE "1",
                   IF region = "India" THEN z ELSE "2",
                   IF region = short THEN missing ELSE "none")])

RunFiles ==
    {[header |-> TRUE, rows |-> RunRows("N Am", "none", x, z)] :
        x \in {"1", "3", ""}, z \in {"2", " "}}
    \cup {[header |-> TRUE, rows |-> RunRows(short, missing, "1", "2")] :
              short \in {"N Am", "SC Asia", "SE Asia"},
              missing \in {"above", "below", "both"}}
    \cup {[header |-> FALSE, rows |-> <<>>]}

InitRun ==
    /\ pc = "start"
    /\ la_args = NoCall /\ la_ret = NoCall
    /\ bs_args = NoCall /\ bs_choice = <<>> /\ bs_ret = NoCall
    /\ data_items = <<>> /\ regions = <<>> /\ allregions = <<>>
    /\ aboveregions = <<>> /\ belowregions = <<>>
    /\ ParseIdle
    /\ RunIdle
    /\ raised = <<>>

calleeVars == <<la_args, la_ret, bs_args, bs_choice, bs_ret, parseVars>>

groupVars == <<data_items, regions, allregions, aboveregions, belowregions>>

outVars == <<summary_out, sheets, images>>

\* line 73: Popen returns as soon as the child is started
StartQuery ==
    /\ pc = "start"
    /\ children' = [children EXCEPT !.query = "running"]
    /\ pc' = "query"
    /\ UNCHANGED <<calleeVars, groupVars, outVars, input_file, handles, msg, frame, raised>>

\* the chcp child prints the active codepage ...
QueryWrites ==
    /\ children.query = "running"
    /\ children' = [children EXCEPT !.query = "wrote"]
    /\ UNCHANGED <<pc, calleeVars, groupVars, outVars, input_file, handles, msg, frame, raised>>

\* ... and ends; nothing waits for it
QueryExits ==
    /\ children.query = "wrote"
    /\ children' = [children EXCEPT !.query = "exited"]
    /\ UNCHANGED <<pc, calleeVars, groupVars, outVars, input_file, handles, msg, frame, raised>>

\* line 74: p.stdout.readline() returns once the line is there
ReadCodepage ==
    /\ pc = "query"
    /\ children.query \in {"wrote", "exited"}
    /\ msg' = "437"
    /\ pc' = "change"
    /\ UNCHANGED <<calleeVars, groupVars, outVars, input_file, handles, children, frame, raised>>

\* line 76: the child is started; no wait(), communicate() or read follows
StartChange ==
    /\ pc = "change"
    /\ children' = [children EXCEPT !.change = "running"]
    /\ pc' = "opening"
    /\ UNCHANGED <<calleeVars, groupVars, outVars, input_file, handles, msg, frame, raised>>

ChangeExits ==
    /\ children.change = "running"
    /\ children' = [children EXCEPT !.change = "exited"]
    /\ UNCHANGED <<pc, calleeVars, groupVars, outVars, input_file, handles, msg, frame, raised>>

\* lines 849-858
OpenFiles ==
    /\ pc = "opening"
    /\ \E argv1 \in {"Input.csv", "data/Input.csv"} : input_file' = argv1
    /\ handles' = [input |-> "open", summary |-> "open", bstrap |-> "open"]
    /\ pc' = "reading"
    /\ UNCHANGED <<calleeVars, groupVars, outVars, children, msg, frame, raised>>

\* lines 861-862
ReadInput ==
    /\ pc = "reading"
    /\ handles' = AfterRead(handles)
    /\ pc' = "parsing"
    /\ UNCHANGED <<calleeVars, groupVars, outVars, input_file, children, msg, frame, raised>>

\* lines 865-875, with what the file held made known here; a file without
\* any line left fails at pop(0)
ParseInput ==
    /\ pc = "parsing"
    /\ \E file \in RunFiles :
          IF file.header
          THEN /\ data_items' = file.rows
               /\ pc' = "rows_read"
               /\ UNCHANGED raised
          ELSE /\ raised' = Append(raised, Ev("IndexError", 872, FALSE))
               /\ pc' = "crashed"
               /\ UNCHANGED data_items
    /\ UNCHANGED <<calleeVars, regions, allregions, aboveregions, belowregions,
                   outVars, input_file, handles, children, msg, frame>>

\* lines 906, 912, 918: the next call of plot_linear
Call_plot_linear ==
    /\ pc = "classed"
    /\ frame.call < 3
    /\ frame' = [NoFrame EXCEPT !.call = frame.call + 1,
                                !.opic = opic_strings[frame.call + 1]]
    /\ pc' = "pl_means"
    /\ UNCHANGED <<calleeVars, groupVars, outVars, input_file, handles, children, msg, raised>>

AfterLoop(here, next) == IF frame.m + 1 = Len(region_unique) THEN next ELSE here

NextM == IF frame.m + 1 = Len(region_unique) THEN 0 ELSE frame.m + 1

\* lines 266-287, one region
PL_means ==
    /\ pc = "pl_means"
    /\ LET la == loc_average(CallRegions(frame.call), frame.m, 9, 13)
       IN IF la.status # "ok"
          THEN /\ raised' = Append(raised, Ev(la.status, 268, FALSE))
               /\ pc' = "crashed"
               /\ UNCHANGED frame
          ELSE LET tm == [d \in 1..4 |-> TryMean(la.series[d], 267 + 4 * d)]
                   evs == Concat([d \in 1..4 |-> tm[d].events])
               IN /\ raised' = raised \o UpToUncaught(evs)
                  /\ IF Terminates(evs)
                        THEN pc' = "crashed" /\ UNCHANGED frame
                        ELSE /\ frame' = [frame EXCEPT
                                    !.region_means = Append(@, [d \in 1..4 |-> tm[d].value]),
                                    !.m = NextM]
                             /\ pc' = AfterLoop("pl_means", "pl_rates")
    /\ UNCHANGED <<calleeVars, groupVars, outVars, input_file, handles, children, msg>>

\* lines 345-402, one region
PL_rates ==
    /\ pc = "pl_rates"
    /\ LET cur_region == region_unique[frame.m + 1]
           la == loc_average(CallRegions(frame.call), frame.m, 18, 22)
       IN IF la.status # "ok"
          THEN /\ raised' = Append(raised, Ev(la.status, 347, FALSE))
               /\ pc' = "crashed"
               /\ UNCHANGED <<frame, summary_out>>
          ELSE \E choice \in Choices(RunBsIter, la.series) :
               LET bs == bstrap(RunBsIter, la.series, choice).series
               IN IF handles.summary # "open"
                  THEN /\ raised' = raised \o StatsWarnings(bs, 359)
                                       \o <<Ev("ValueError", 361, FALSE)>>
                       /\ pc' = "crashed"
                       /\ frame' = [frame EXCEPT !.bs_pack1 = Append(@, bs)]
                       /\ UNCHANGED summary_out
                  ELSE /\ raised' = raised \o StatsWarnings(bs, 359)
                       /\ summary_out' = Append(summary_out,
                              SummaryBlock(cur_region, "Urban Expansion Rates", frame.opic, bs))
                       /\ frame' = [frame EXCEPT
                              !.bs_pack1 = Append(@, bs),
                              !.bs_dict1 = DictWith(@, cur_region, frame.opic, rate_items, bs, 1),
                              !.m = NextM]
                       /\ pc' = AfterLoop("pl_rates", "pl_sheet1")
    /\ UNCHANGED <<calleeVars, groupVars, sheets, images, input_file, handles, children, msg>>

\* pandas.DataFrame refuses columns of different lengths
SameLengths(bs_dict) ==
    \A i, j \in 1..Len(bs_dict) : Len(bs_dict[i].data) = Len(bs_dict[j].data)

\* lines 404-405
PL_sheet1 ==
    /\ pc = "pl_sheet1"
    /\ IF ~SameLengths(frame.bs_dict1)
          THEN /\ raised' = Append(raised, Ev("ValueError", 404, FALSE))
               /\ pc' = "crashed"
               /\ UNCHANGED sheets
          ELSE IF handles.bstrap # "open"
          THEN /\ raised' = Append(raised, Ev("ValueError", 405, FALSE))
               /\ pc' = "crashed"
               /\ UNCHANGED sheets
          ELSE /\ sheets' = Append(sheets, [name |-> SheetName("UER", frame.opic),
                                            columns |-> frame.bs_dict1])
               /\ pc' = "pl_save1"
               /\ UNCHANGED raised
    /\ UNCHANGED <<calleeVars, groupVars, summary_out, images, input_file, handles,
                   children, msg, frame>>

\* lines 439-441
PL_save1 ==
    /\ pc = "pl_save1"
    /\ images' = Append(images, ImageName(input_file, frame.opic, "rates", "linear"))
    /\ pc' = "pl_pd"
    /\ UNCHANGED <<calleeVars, groupVars, summary_out, sheets, input_file, handles,
                   children, msg, frame, raised>>

\* lines 456-519, one region
PL_pd ==
    /\ pc = "pl_pd"
    /\ LET cur_region == region_unique[frame.m + 1]
           la == loc_average(CallRegions(frame.call), frame.m, 22, 27)
       IN IF la.status # "ok"
          THEN /\ raised' = Append(raised, Ev(la.status, 458, FALSE))
               /\ pc' = "crashed"
               /\ UNCHANGED <<frame, summary_out>>
          ELSE \E choice \in Choices(RunBsIter, la.series) :
               LET bs == bstrap(RunBsIter, la.series, choice).series
               IN IF handles.summary # "open"
                  THEN /\ raised' = raised \o StatsWarnings(bs, 470)
                                       \o <<Ev("ValueError", 472, FALSE)>>
                       /\ pc' = "crashed"
                       /\ frame' = [frame EXCEPT !.bs_pack2 = Append(@, bs)]
                       /\ UNCHANGED summary_out
                  ELSE /\ raised' = raised \o StatsWarnings(bs, 470)
                       /\ summary_out' = Append(summary_out,
                              SummaryBlock(cur_region, "Population Density", frame.opic, bs))
                       /\ frame' = [frame EXCEPT
                              !.bs_pack2 = Append(@, bs),
                              !.bs_dict2 = DictWith(@, cur_region, frame.opic, pd_items, bs, 1),
                              !.m = NextM]
                       /\ pc' = AfterLoop("pl_pd", "pl_sheet2")
    /\ UNCHANGED <<calleeVars, groupVars, sheets, images, input_file, handles, children, msg>>

\* lines 521-522
PL_sheet2 ==
    /\ pc = "pl_sheet2"
    /\ IF ~SameLengths(frame.bs_dict2)
          THEN /\ raised' = Append(raised, Ev("ValueError", 521, FALSE))
               /\ pc' = "crashed"
               /\ UNCHANGED sheets
          ELSE IF handles.bstrap # "open"
          THEN /\ raised' = Append(raised, Ev("ValueError", 522, FALSE))
               /\ pc' = "crashed"
               /\ UNCHANGED sheets
          ELSE /\ sheets' = Append(sheets, [name |-> SheetName("PD", frame.opic),
                                            columns |-> frame.bs_dict2])
               /\ pc' = "pl_save2"
               /\ UNCHANGED raised
    /\ UNCHANGED <<calleeVars, groupVars, summary_out, images, input_file, handles,
                   children, msg, frame>>

\* lines 565-568, and the call of plot_log with what plot_linear returned
PL_save2 ==
    /\ pc = "pl_save2"
    /\ images' = Append(images, ImageName(input_file, frame.opic, "PD", "linear"))
    /\ pc' = "lg_rates"
    /\ UNCHANGED <<calleeVars, groupVars, summary_out, sheets, input_file, handles,
                   children, msg, frame, raised>>

\* lines 649-718, one region
LG_rates ==
    /\ pc = "lg_rates"
    /\ LET la == loc_average(CallRegions(frame.call), frame.m, 18, 22)
       IN IF frame.m + 1 > Len(frame.bs_pack1)
          THEN /\ raised' = Append(raised, Ev("IndexError", 651, FALSE))
               /\ pc' = "crashed"
               /\ UNCHANGED frame
          ELSE IF la.status # "ok"
          THEN /\ raised' = Append(raised, Ev(la.status, 654, FALSE))
               /\ pc' = "crashed"
               /\ UNCHANGED frame
          ELSE /\ frame' = [frame EXCEPT !.m = NextM]
               /\ pc' = AfterLoop("lg_rates", "lg_save1")
               /\ UNCHANGED raised
    /\ UNCHANGED <<calleeVars, groupVars, outVars, input_file, handles, children, msg>>

\* lines 732-734
LG_save1 ==
    /\ pc = "lg_save1"
    /\ images' = Append(images, ImageName(input_file, frame.opic, "rates", "log"))
    /\ pc' = "lg_pd"
    /\ UNCHANGED <<calleeVars, groupVars, summary_out, sheets, input_file, handles,
                   children, msg, frame, raised>>

\* lines 746-815, one region
LG_pd ==
    /\ pc = "lg_pd"
    /\ LET la == loc_average(CallRegions(frame.call), frame.m, 22, 27)
       IN IF frame.m + 1 > Len(frame.bs_pack2)
          THEN /\ raised' = Append(raised, Ev("IndexError", 748, FALSE))
               /\ pc' = "crashed"
               /\ UNCHANGED frame
          ELSE IF la.status # "ok"
          THEN /\ raised' = Append(raised, Ev(la.status, 750, FALSE))
               /\ pc' = "crashed"
               /\ UNCHANGED frame
          ELSE /\ frame' = [frame EXCEPT !.m = NextM]
               /\ pc' = AfterLoop("lg_pd", "lg_save2")
               /\ UNCHANGED raised
    /\ UNCHANGED <<calleeVars, groupVars, outVars, input_file, handles, children, msg>>

\* lines 843-845; plot_log returns to the driver
LG_save2 ==
    /\ pc = "lg_save2"
    /\ images' = Append(images, ImageName(input_file, frame.opic, "PD", "log"))
    /\ pc' = "classed"
    /\ UNCHANGED <<calleeVars, groupVars, summary_out, sheets, input_file, handles,
                   children, msg, frame, raised>>

\* line 924
CloseSummary ==
    /\ pc = "classed"
    /\ frame.call = 3
    /\ handles' = [handles EXCEPT !.summary = "closed"]
    /\ pc' = "saving"
    /\ UNCHANGED <<calleeVars, groupVars, outVars, input_file, children, msg, frame, raised>>

\* line 925
SaveSpreadsheet ==
    /\ pc = "saving"
    /\ handles' = [handles EXCEPT !.bstrap = "saved"]
    /\ pc' = "restoring"
    /\ UNCHANGED <<calleeVars, groupVars, outVars, input_file, children, msg, frame, raised>>

\* line 927: the last statement; the child is started and the program ends
StartRestore ==
    /\ pc = "restoring"
    /\ children' = [children EXCEPT !.restore = "running"]
    /\ pc' = "done"
    /\ UNCHANGED <<calleeVars, groupVars, outVars, input_file, handles, msg, frame, raised>>

RestoreExits ==
    /\ children.restore = "running"
    /\ children' = [children EXCEPT !.restore = "exited"]
    /\ UNCHANGED <<pc, calleeVars, groupVars, outVars, input_file, handles, msg, frame, raised>>

NextRun ==
    \/ StartQuery \/ QueryWrites \/ QueryExits \/ ReadCodepage
    \/ StartChange \/ ChangeExits
    \/ OpenFiles \/ ReadInput \/ ParseInput
    \/ SetUpRegions \/ SetUpSizeClasses
    \/ Call_plot_linear
    \/ PL_means \/ PL_rates \/ PL_sheet1 \/ PL_save1 \/ PL_pd \/ PL_sheet2 \/ PL_save2
    \/ LG_rates \/ LG_save1 \/ LG_pd \/ LG_save2
    \/ CloseSummary \/ SaveSpreadsheet \/ StartRestore \/ RestoreExits

SpecRun == InitRun /\ [][NextRun]_vars

\* ---------------------------------------------------------------------------
\* What a run leaves behind, told from the rows of the input alone
\* ---------------------------------------------------------------------------
Complete == pc = "done"

ClassNames == {opic_strings[k] : k \in 1..3}

\* the directory part of the input file's name, with its separator
InputDir == IF input_file = "data/Input.csv" THEN "data/" ELSE ""

\* the rows of region i (1..10) that belong to size class k (1 all, 2 above,
\* 3 below), as a set of places in data_items
ClassRegionRows(k, i) ==
    {p \in 1..Len(data_items) :
        /\ data_items[p][2] = Keywords[i]
        /\ \/ k = 1
           \/ k = 2 /\ Over2000(data_items[p])
           \/ k = 3 /\ AtMost2000(data_items[p])}

\* the values region i has in class k in column c, divided as the measure is
ClassValues(k, i, c, divisor) ==
    {RDiv(float(data_items[p][c]), divisor) :
        p \in {h \in ClassRegionRows(k, i) : IsData(data_items[h][c])}}

\* e lies between two of the values
Within(e, V) == \E lo \in V, hi \in V : RLeq(lo, e) /\ RLeq(e, hi)

\* first column and divisor of a measure, and its number of decades
FirstCol(measure) == IF measure = "UER" THEN 18 ELSE 22

DivisorOf(measure) == IF measure = "UER" THEN 1 ELSE 1000

DecadesOf(measure) == IF measure = "UER" THEN 4 ELSE 5

LabelsOf(measure) == IF measure = "UER" THEN rate_items ELSE pd_items

\* C12: no image name is ever saved twice, and a complete run has saved
\* exactly the 12 names <class>_<measure>_<scale>.png, one per size class,
\* measure (rates, PD) and scale (linear, log), in the input file's directory.
C12_TwelveImages ==
    /\ \A i, j \in 1..Len(images) : i # j => images[i] # images[j]
    /\ Complete =>
          /\ Len(images) = 12
          /\ {images[i] : i \in 1..Len(images)} =
                {InputDir \o cls \o "_" \o measure \o "_" \o scale \o ".png" :
                    cls \in ClassNames, measure \in {"rates", "PD"},
                    scale \in {"linear", "log"}}

\* a complete run on a file in a directory
C12_Witness ==
    /\ Complete
    /\ input_file = "data/Input.csv"
    /\ images[1] = "data/regional_all_location_rates_linear.png"
    /\ images[12] = "data/regional_below_location_PD_log.png"

\* C13: a complete run has saved the one spreadsheet with exactly 6 sheets
\* of pairwise distinct names, UER_<class> then PD_<class> for the classes in
\* the order all, above, below; a sheet has one column per region and decade
\* in which the region has a value in that class, under that region's,
\* class's and decade's key, and every estimate in the column lies within
\* the region's values of that decade and class (divided by 1000 for PD).
C13_SixSheets ==
    Complete =>
        /\ handles.bstrap = "saved"
        /\ Len(sheets) = 6
        /\ \A a, b \in 1..6 : a # b => sheets[a].name # sheets[b].name
        /\ \A k \in 1..3 : \A measure \in {"UER", "PD"} :
              LET sheet == sheets[2 * k - (IF measure = "UER" THEN 1 ELSE 0)]
                  cols == sheet.columns
                  KeyOf(i, d) == replace_blank(Keywords[i]) \o "_" \o opic_strings[k]
                                    \o "_" \o LabelsOf(measure)[d]
                  Vals(i, d) == ClassValues(k, i, FirstCol(measure) + d - 1,
                                            DivisorOf(measure))
                  held == {<<i, d>> \in (1..10) \X (1..DecadesOf(measure)) :
                              Vals(i, d) # {}}
              IN /\ sheet.name = measure \o "_" \o opic_strings[k]
                 /\ Len(cols) = Cardinality(held)
                 /\ \A id \in held :
                       \E n \in 1..Len(cols) :
                          /\ cols[n].key = KeyOf(id[1], id[2])
                          /\ Len(cols[n].data) = RunBsIter
                          /\ \A r \in 1..RunBsIter :
                                Within(cols[n].data[r], Vals(id[1], id[2]))

\* a complete run on a file in which India has a value in one decade of the
\* rates only: 37 columns of rates for the class of all cities
C13_Witness ==
    /\ Complete
    /\ Len(sheets) = 6
    /\ sheets[1].name = "UER_regional_all_location"
    /\ Len(sheets[1].columns) = 37
    /\ sheets[6].name = "PD_regional_below_location"

\* C14: the n-th block of the summary is, for the classes in the order all,
\* above, below, the 'Urban Expansion Rates' block of each region in display
\* order and then the 'Population Density' block of each region; its 4 (5)
\* pairs are nan where the region has no value in the decade and class and
\* lie within the region's values otherwise; a complete run has written 60.
C14_SummaryBlocks ==
    /\ Len(summary_out) <= 60
    /\ Complete => Len(summary_out) = 60
    /\ \A n \in 1..Len(summary_out) :
          LET k == (n - 1) \div 20 + 1
              measure == IF (n - 1) % 20 < 10 THEN "UER" ELSE "PD"
              i == ((n - 1) % 10) + 1
              block == summary_out[n]
          IN /\ block.region = Keywords[i]
             /\ block.title = (IF measure = "UER" THEN "Urban Expansion Rates"
                               ELSE "Population Density")
             /\ block.opic = opic_strings[k]
             /\ Len(block.stats) = DecadesOf(measure)
             /\ \A d \in 1..DecadesOf(measure) :
                   LET V == ClassValues(k, i, FirstCol(measure) + d - 1, DivisorOf(measure))
                   IN IF V = {}
                      THEN /\ block.stats[d].mean = [num |-> 0, den |-> 0]
                           /\ block.stats[d].median = [num |-> 0, den |-> 0]
                      ELSE /\ Within(block.stats[d].mean, V)
                           /\ Within(block.stats[d].median, V)

\* a complete run in which India (the 7th region) has no rate in 1970-1980
\* and the rate 2 in 1990-2000
C14_Witness ==
    /\ Complete
    /\ Len(summary_out) = 60
    /\ summary_out[7].region = "India"
    /\ summary_out[7].stats[1].mean = [num |-> 0, den |-> 0]
    /\ summary_out[7].stats[3].median = Rat(2, 1)
    /\ summary_out[60].title = "Population Density"
    /\ summary_out[60].opic = "regional_below_location"

\* a child that has work left; the query child that has written its answer
\* has none but to end
Alive(child) == children[child] = "running"

\* C15: while a process the program started is alive, the program is not
\* past the statement that follows the start: at the readline after the
\* codepage query, before opening the files after the codepage change, at
\* its end after the codepage restore.
C15_NoConcurrentChild ==
    /\ Alive("query") => pc = "query"
    /\ Alive("change") => pc = "opening"
    /\ Alive("restore") => pc = "done"

HasCrashed == pc = "crashed"

\* C16 as stated: only the runtime warning of a mean or median over an empty
\* array of estimates is handled; whatever else is raised ends the run.
C16_OnlyWarningHandled ==
    \A i \in 1..Len(raised) :
        IF raised[i].kind = "RuntimeWarning"
        THEN raised[i].caught /\ raised[i].line \in {359, 360, 470, 471}
        ELSE ~raised[i].caught /\ HasCrashed

\* C16: two conditions are handled and the run goes on: the runtime
\* warnings of the means and medians over empty arrays of estimates (lines
\* 359-360, 470-471) and the ZeroDivisionError of the mean over an empty
\* population series (lines 271-283); whatever else is raised is the last
\* thing raised and ends the run, and a run that ended so raised it.
C16_WhatIsHandled ==
    /\ \A i \in 1..Len(raised) :
          /\ raised[i].caught <=>
                \/ raised[i].kind = "RuntimeWarning"
                      /\ raised[i].line \in {359, 360, 470, 471}
                \/ raised[i].kind = "ZeroDivisionError"
                      /\ raised[i].line \in {271, 275, 279, 283}
          /\ ~raised[i].caught => HasCrashed /\ i = Len(raised)
    /\ HasCrashed => Len(raised) > 0 /\ ~raised[Len(raised)].caught

\* a complete run in which both conditions arose
C16_Witness ==
    /\ Complete
    /\ \E i \in 1..Len(raised) :
          raised[i].kind = "ZeroDivisionError" /\ raised[i].line = 271 /\ raised[i].caught
    /\ \E i \in 1..Len(raised) :
          raised[i].kind = "RuntimeWarning" /\ raised[i].line = 359 /\ raised[i].caught

\* C17: once the rows of a file are read and classed, nothing is raised that
\* ends the run, also when a region has no row in a size class.
C17_CompletesWithEmptyRegion ==
    (/\ data_items # <<>>
     /\ allregions # <<>>
     /\ \E k \in 1..3 : \E i \in 1..10 : ClassRegionRows(k, i) = {})
        => /\ ~HasCrashed
           /\ \A i \in 1..Len(raised) : raised[i].caught

InPlot ==
    pc \in {"pl_means", "pl_rates", "pl_sheet1", "pl_save1", "pl_pd", "pl_sheet2",
            "pl_save2", "lg_rates", "lg_save1", "lg_pd", "lg_save2"}

HandlesInOrder ==
    /\ InPlot => handles.summary = "open" /\ handles.bstrap = "open"
    /\ handles.summary = "closed" =>
          pc \in {"saving", "restoring", "done"} /\ frame.call = 3
    /\ handles.bstrap = "saved" => pc \in {"restoring", "done"} /\ frame.call = 3
    /\ handles.input = "open" => pc = "reading"
    /\ (data_items # <<>> \/ regions # <<>>) => handles.input = "closed"
    /\ \A i \in 1..Len(raised) : raised[i].kind # "ValueError"

WritesWhileOpen ==
    /\ summary_out' # summary_out =>
          handles.summary = "open" /\ handles'.summary = "open"
    /\ sheets' # sheets => handles.bstrap = "open" /\ handles'.bstrap = "open"
    /\ handles.summary = "closed" => summary_out' = summary_out
    /\ handles.bstrap = "saved" => sheets' = sheets

\* C18: the summary file and the spreadsheet writer are open at every write
\* to them and throughout plot_linear and plot_log, the summary is closed and
\* the spreadsheet saved only after the third plot_log has returned, nothing
\* is written to either afterwards, and the input handle is open only between
\* its opening and the read, so it is closed before any row exists.
C18_HandlesOpenAtWrites == []HandlesInOrder /\ [][WritesWhileOpen]_vars

\* the end of a complete run: everything written, every handle released
C18_Witness ==
    /\ Complete
    /\ handles = [input |-> "closed", summary |-> "closed", bstrap |-> "saved"]
    /\ Len(summary_out) = 60
    /\ Len(sheets) = 6

====
